---- MODULE Spec2Model ----
(***************************************************************************)
(* Model of the two MCP chat clients of mcp-client/:                       *)
(*   variant "A" = client-bedrock.py, variant "B" = client-openai.py.      *)
(* One behaviour is one run of main(): argument check, connect_to_server,  *)
(* chat_loop with its calls of process_query, cleanup.  The model backend  *)
(* and the tool session are the environment: every reply, tool result and  *)
(* failure is a nondeterministic choice from small sets.                   *)
(***************************************************************************)
EXTENDS Integers, Sequences, FiniteSets, TLC

VARIABLES
  variant,          \* "A" (Bedrock) or "B" (OpenAI): which program runs
  argv,             \* sys.argv[1:], a sequence of at most one path
  pc,               \* position of the single thread of control
  messages,         \* process_query: the history
  final_text,       \* process_query: the answer buffer
  amc,              \* Bedrock: assistant_message_content (one shared list object)
  available_tools,  \* process_query: the shaped tool catalog
  reply,            \* response_json (A) / chat_response.choices[0].message (B)
  iter,             \* Bedrock: the list object the for loop of line 73 iterates
  idx,              \* position of the running for loop
  query,            \* chat_loop: the stripped line being processed
  retval,           \* value returned by process_query
  err,              \* str(e) of the exception in flight
  out,              \* lines printed since the last line was read
  exitCode,         \* process exit status, NoExit while running
  nQueries,         \* lines read by chat_loop so far
  backendCalls,     \* backend calls issued by the current process_query
  toolCalls,        \* session.call_tool invocations of the current process_query
  listCalls,        \* session.list_tools invocations of the current process_query
  sent,             \* request bodies of the backend calls of the current query
  replies,          \* replies received by the current query, in order
  dispatched,       \* the requests handed to call_tool, in order
  result,           \* result.content of the last successful call_tool
  session,          \* the tool session: "none", "open" or "closed"
  cleanups,         \* number of times cleanup() ran
  asked,            \* the queries process_query was called with, in order
  line,             \* the last line input() returned
  inflight          \* external operations issued and not yet completed

vars == <<variant, argv, pc, messages, final_text, amc, available_tools, reply,
          iter, idx, query, retval, err, out, exitCode, nQueries, backendCalls,
          toolCalls, listCalls, sent, replies, dispatched, result, session,
          cleanups, asked, line, inflight>>

pqVars == <<messages, final_text, amc, available_tools, reply, iter, idx,
            retval, backendCalls, toolCalls, listCalls, sent, replies,
            dispatched, result>>

-----------------------------------------------------------------------------
(* Bounds of the model *)

\* most content items / tool_calls in one backend reply
MaxItems == 2
\* most content items in one Bedrock follow-up reply
MaxFollowItems == 2
\* most backend replies of one OpenAI query that may carry tool_calls
MaxRounds == 2
\* most lines chat_loop reads in one run
MaxQueries == 2

-----------------------------------------------------------------------------
(* Values *)

None == "<None>"
NoId == <<0, 0>>
NoExit == -1

\* text values a backend may emit
Texts == {"a"}
\* tools the model may request
ToolNames == {"add"}
\* Bedrock: content["input"] is already a dict; this is its str()
BedrockInput == "{'a': 2, 'b': 3}"
\* OpenAI: function.arguments is a text blob; the second one is valid JSON
\* but not a Python expression
ArgBlobs == {"{\"a\": 2, \"b\": 3}", "{\"ok\": true}"}
\* payloads a successful call_tool may return
ToolOutputs == {"5"}

\* the tool catalog the session may list
AddTool == [name |-> "add", description |-> "adds", inputSchema |-> "schema"]
Catalogs == {<< >>, <<AddTool>>}

\* lines input() may deliver, as sequences of characters
InputLines == { <<"q", "u", "i", "t">>,
                <<" ", "Q", "u", "I", "T", " ">>,
                <<"h", "i">>,
                <<" ">> }

\* sys.argv[1:] of a run
Argvs == { << >>, <<"server.py">>, <<"server.js">>, <<"server.txt">> }

-----------------------------------------------------------------------------
(* Pure helpers *)

SeqsUpTo(S, n) == UNION { [1..k -> S] : k \in 0..n }

\* " ".join(xs)
RECURSIVE Join_Space(_)
Join_Space(xs) ==
  IF Len(xs) = 0 THEN ""
  ELSE IF Len(xs) = 1 THEN xs[1]
  ELSE xs[1] \o " " \o Join_Space(Tail(xs))

\* "\n".join(xs)
RECURSIVE Join(_)
Join(xs) ==
  IF Len(xs) = 0 THEN ""
  ELSE IF Len(xs) = 1 THEN xs[1]
  ELSE xs[1] \o "\n" \o Join(Tail(xs))

\* str.endswith on the paths of Argvs
EndsWith(path, suffix) ==
  \/ suffix = ".py" /\ path = "server.py"
  \/ suffix = ".js" /\ path = "server.js"

IsSpace(c) == c = " "

\* str.strip()
RECURSIVE LStrip(_)
LStrip(s) == IF Len(s) > 0 /\ IsSpace(s[1]) THEN LStrip(Tail(s)) ELSE s
RECURSIVE RStrip(_)
RStrip(s) ==
  IF Len(s) > 0 /\ IsSpace(s[Len(s)]) THEN RStrip(SubSeq(s, 1, Len(s) - 1)) ELSE s
Strip(s) == RStrip(LStrip(s))

\* the line compared as typed, without lower()
Lower_Identity(s) == s

\* str.lower()
LowerChar(c) ==
  CASE c = "Q" -> "q" [] c = "U" -> "u" [] c = "I" -> "i" [] c = "T" -> "t"
    [] OTHER -> c
Lower(s) == [i \in 1..Len(s) |-> LowerChar(s[i])]

\* the str a sequence of characters stands for
RECURSIVE Concat(_)
Concat(s) == IF Len(s) = 0 THEN "" ELSE s[1] \o Concat(Tail(s))

\* eval(tool_call.function.arguments): JSON literals true/false/null are not
\* Python names
EvalRaises(blob) == blob = "{\"ok\": true}"
EvalError(blob) == "name 'true' is not defined"
Eval(blob) == IF blob = "{\"a\": 2, \"b\": 3}" THEN "{'a': 2, 'b': 3}" ELSE None

\* str(result.content) of a CallToolResult holding one text payload
StrContent(c) == "[TextContent(type='text', text='" \o c \o "')]"

\* f"[Calling tool {tool_name} with args {tool_args}]"
CallingMarker(name, args) == "[Calling tool " \o name \o " with args " \o args \o "]"

-----------------------------------------------------------------------------
(* Content items and messages *)

TextItem(t) ==
  [type |-> "text", id |-> NoId, name |-> "", input |-> "", text |-> t]
ToolUseItem(i, n, a) ==
  [type |-> "tool_use", id |-> i, name |-> n, input |-> a, text |-> ""]
ToolResultItem(i, c) ==
  [type |-> "tool_result", id |-> i, name |-> "", input |-> "", text |-> c]
ToolCallItem(i, n, a) ==
  [type |-> "function", id |-> i, name |-> n, input |-> a, text |-> ""]

\* one entry of the messages list
Msg(role, text, items, id, name) ==
  [role |-> role, text |-> text, items |-> items, tool_id |-> id, name |-> name]

UserMsg(q) == Msg("user", q, << >>, NoId, "")

\* client-bedrock.py line 86: the content is the list object amc itself
BedrockAssistantMsg(content) == Msg("assistant", None, content, NoId, "")
\* client-bedrock.py lines 87-94
BedrockToolResultMsg(id, res) ==
  Msg("user", None, <<ToolResultItem(id, StrContent(res))>>, NoId, "")
\* client-openai.py lines 84-89
OpenAIToolMsg(id, name, res) == Msg("tool", res, << >>, id, name)

IsRequest(item) == item.type \in {"tool_use", "function"}
Requests(items) == SelectSeq(items, IsRequest)

\* the tool catalog adapters
BedrockTools(catalog) ==
  [i \in 1..Len(catalog) |->
     [name |-> catalog[i].name, description |-> catalog[i].description,
      input_schema |-> catalog[i].inputSchema]]
OpenAITools(catalog) ==
  [i \in 1..Len(catalog) |->
     [type |-> "function",
      function |-> [name |-> catalog[i].name,
                    description |-> catalog[i].description,
                    parameters |-> catalog[i].inputSchema]]]
ShapeTools(catalog) ==
  IF variant = "A" THEN BedrockTools(catalog) ELSE OpenAITools(catalog)

-----------------------------------------------------------------------------
(* The environment: what a backend may reply to its c-th call of a query.   *)
(* Request ids are unique: the k-th item of the c-th reply gets <<c, k>>.   *)

\* Bedrock: response_json["content"], a list of text / tool_use items
BedrockReplies(c) ==
  { [k \in 1..Len(s) |->
       IF s[k] \in ToolNames THEN ToolUseItem(<<c, k>>, s[k], BedrockInput)
       ELSE TextItem(s[k])] :
      s \in SeqsUpTo(Texts \cup ToolNames,
                     IF c = 1 THEN MaxItems ELSE MaxFollowItems) }

\* OpenAI: choices[0].message, with content (None allowed beside tool_calls)
\* and tool_calls
OpenAIToolCalls(c, n) ==
  { [k \in 1..Len(s) |-> ToolCallItem(<<c, k>>, s[k][1], s[k][2])] :
      s \in SeqsUpTo(ToolNames \X ArgBlobs, n) }
OpenAIReplies(c) ==
  { m \in [role : {"assistant"}, text : Texts \cup {None},
           items : OpenAIToolCalls(c, IF c <= MaxRounds THEN MaxItems ELSE 0),
           tool_id : {NoId}, name : {""}] :
      m.items = << >> => m.text # None }

-----------------------------------------------------------------------------
\* the request body of a backend call, as serialised at the time of the call
\* a request body whose follow-up calls leave the tools out
RequestOf_ToolsOnlyFirst(msgs) ==
  [messages |-> msgs,
   tools |-> IF backendCalls = 0 THEN available_tools ELSE << >>]
\* the request body for history msgs: lines 57-62, 96 (A) / 69-72, 91-94 (B)
RequestOf(msgs) == [messages |-> msgs, tools |-> available_tools]

Request == RequestOf(messages)

Raise(msg) == /\ pc' = "pq_raised"
              /\ err' = msg

\* the locals of process_query are gone once it has returned or raised
DropLocals ==
  /\ messages' = << >>
  /\ final_text' = << >>
  /\ amc' = << >>
  /\ available_tools' = << >>
  /\ reply' = << >>
  /\ iter' = << >>
  /\ idx' = 0
  /\ retval' = None
  /\ result' = None
  /\ backendCalls' = 0
  /\ toolCalls' = 0
  /\ listCalls' = 0
  /\ sent' = << >>
  /\ replies' = << >>
  /\ dispatched' = << >>

-----------------------------------------------------------------------------
Init ==
  /\ variant \in {"A", "B"}
  /\ argv \in Argvs
  /\ pc = "main"
  /\ messages = << >>
  /\ final_text = << >>
  /\ amc = << >>
  /\ available_tools = << >>
  /\ reply = << >>
  /\ iter = << >>
  /\ idx = 0
  /\ query = ""
  /\ retval = None
  /\ err = None
  /\ out = << >>
  /\ exitCode = NoExit
  /\ nQueries = 0
  /\ backendCalls = 0
  /\ toolCalls = 0
  /\ listCalls = 0
  /\ sent = << >>
  /\ replies = << >>
  /\ dispatched = << >>
  /\ result = None
  /\ session = "none"
  /\ cleanups = 0
  /\ asked = << >>
  /\ line = << >>
  /\ inflight = << >>

-----------------------------------------------------------------------------
(* process_query, common prefix *)

\* client-openai.py line 79: the for loop over message.tool_calls is exhausted
B_ForDone_FirstOnly == idx > 1
B_ForDone == idx > Len(reply.items)

\* the external operation the thread of control issues next, if any
NextOp ==
  CASE pc = "pq_start" -> "list_tools"
    [] pc = "first_call" -> "backend"
    [] pc = "a_for" /\ idx <= Len(iter) /\ iter[idx].type = "tool_use" -> "call_tool"
    [] pc = "a_tool_done" -> "backend"
    [] pc = "b_for" /\ B_ForDone -> "backend"
    [] pc = "b_for" /\ ~B_ForDone
         /\ ~EvalRaises(reply.items[idx].input) -> "call_tool"
    [] OTHER -> "none"

\* an operation started as a task and not awaited: a second one may start
Awaited_FireAndForget == Len(inflight) < 2
\* every external call is awaited (or blocks): nothing is outstanding when
\* the next one is issued
Awaited == inflight = << >>

\* the next external operation is issued
Issue ==
  /\ NextOp # "none"
  /\ Awaited
  /\ inflight' = Append(inflight, NextOp)
  /\ UNCHANGED <<variant, argv, pc, query, err, out, exitCode, nQueries,
                 session, cleanups, asked, line>>
  /\ UNCHANGED pqVars

\* the outstanding operation op completes, by returning or by raising
Completes(op) ==
  /\ inflight # << >>
  /\ inflight[1] = op
  /\ inflight' = Tail(inflight)

\* a history that still holds the user messages of the earlier queries
SeedHistory_KeepsEarlier == [i \in 1..Len(asked) |-> UserMsg(asked[i])]
\* line 45 (A) / lines 48-50 (B): messages = [{"role": "user", "content": query}]
SeedHistory == <<UserMsg(query)>>

\* lines 44-55 (A) / 47-66 (B): fresh history, list_tools, shaped catalog
PQ_Start ==
  /\ Completes("list_tools")
  /\ pc = "pq_start"
  /\ \E catalog \in Catalogs : available_tools' = ShapeTools(catalog)
  /\ messages' = SeedHistory
  /\ final_text' = << >>
  /\ amc' = << >>
  /\ listCalls' = listCalls + 1
  /\ pc' = "first_call"
  /\ UNCHANGED <<variant, argv, asked, line, reply, iter, idx, query, retval, err, out,
                 exitCode, nQueries, backendCalls, toolCalls, sent, replies,
                 dispatched, result, session, cleanups>>

\* session.list_tools() raises
PQ_ListToolsFails ==
  /\ Completes("list_tools")
  /\ pc = "pq_start"
  /\ messages' = SeedHistory
  /\ listCalls' = listCalls + 1
  /\ Raise("session error")
  /\ UNCHANGED <<variant, argv, asked, line, final_text, amc, available_tools, reply, iter,
                 idx, query, retval, out, exitCode, nQueries, backendCalls,
                 toolCalls, sent, replies, dispatched, result, session,
                 cleanups>>

\* the reply set of the backend in use
Replies(c) == IF variant = "A" THEN BedrockReplies(c) ELSE OpenAIReplies(c)

\* lines 57-72 (A) / 69-72 (B): the first backend call returns a reply
PQ_FirstCall ==
  /\ Completes("backend")
  /\ pc = "first_call"
  /\ sent' = Append(sent, Request)
  /\ backendCalls' = backendCalls + 1
  /\ \E r \in Replies(1) :
       /\ reply' = r
       /\ replies' = Append(replies, r)
       /\ iter' = IF variant = "A" THEN r ELSE iter
  /\ idx' = 1
  /\ pc' = IF variant = "A" THEN "a_for" ELSE "b_while"
  /\ UNCHANGED <<variant, argv, asked, line, messages, final_text, amc, available_tools,
                 query, retval, err, out, exitCode, nQueries, toolCalls,
                 listCalls, dispatched, result, session, cleanups>>

\* the first backend call raises
PQ_FirstCallFails ==
  /\ Completes("backend")
  /\ pc = "first_call"
  /\ sent' = Append(sent, Request)
  /\ backendCalls' = backendCalls + 1
  /\ Raise("backend error")
  /\ UNCHANGED <<variant, argv, asked, line, messages, final_text, amc, available_tools,
                 reply, iter, idx, query, retval, out, exitCode, nQueries,
                 toolCalls, listCalls, replies, dispatched, result, session,
                 cleanups>>

-----------------------------------------------------------------------------
(* process_query of client-bedrock.py: the for loop of lines 73-105 *)

\* every assistant message of the history holds the one list object
\* assistant_message_content (line 86), so appending to that list shows in
\* each of them
AliasAmc(msgs, content) ==
  [i \in 1..Len(msgs) |->
     IF msgs[i].role = "assistant" THEN [msgs[i] EXCEPT !.items = content]
     ELSE msgs[i]]

\* lines 74-76: a text item
A_Text ==
  /\ variant = "A" /\ pc = "a_for"
  /\ idx <= Len(iter)
  /\ iter[idx].type = "text"
  /\ final_text' = Append(final_text, iter[idx].text)
  /\ amc' = Append(amc, iter[idx])
  /\ messages' = AliasAmc(messages, amc')
  /\ idx' = idx + 1
  /\ UNCHANGED <<variant, argv, asked, line, inflight, pc, available_tools, reply, iter, query,
                 retval, err, out, exitCode, nQueries, backendCalls, toolCalls,
                 listCalls, sent, replies, dispatched, result, session,
                 cleanups>>

\* lines 77-81: a tool_use item, call_tool returns
A_CallTool ==
  /\ Completes("call_tool")
  /\ variant = "A" /\ pc = "a_for"
  /\ idx <= Len(iter)
  /\ iter[idx].type = "tool_use"
  /\ toolCalls' = toolCalls + 1
  /\ dispatched' = Append(dispatched, iter[idx])
  /\ \E res \in ToolOutputs : result' = res
  /\ pc' = "a_tool_done"
  /\ UNCHANGED <<variant, argv, asked, line, messages, final_text, amc, available_tools,
                 reply, iter, idx, query, retval, err, out, exitCode, nQueries,
                 backendCalls, listCalls, sent, replies, session, cleanups>>

\* lines 77-81: call_tool raises; nothing catches it inside process_query
A_CallToolFails ==
  /\ Completes("call_tool")
  /\ variant = "A" /\ pc = "a_for"
  /\ idx <= Len(iter)
  /\ iter[idx].type = "tool_use"
  /\ toolCalls' = toolCalls + 1
  /\ dispatched' = Append(dispatched, iter[idx])
  /\ Raise("unknown tool")
  /\ UNCHANGED <<variant, argv, asked, line, messages, final_text, amc, available_tools,
                 reply, iter, idx, query, retval, out, exitCode, nQueries,
                 backendCalls, listCalls, sent, replies, result, session,
                 cleanups>>

\* lines 83-94: the history after the marker, the assistant message and the
\* tool result have been appended
A_Appended ==
  LET content == Append(amc, iter[idx])
  IN  Append(Append(AliasAmc(messages, content), BedrockAssistantMsg(content)),
             BedrockToolResultMsg(iter[idx].id, result))

\* lines 83-105: appends, follow-up backend call, first item of its reply
A_FollowUp ==
  /\ Completes("backend")
  /\ variant = "A" /\ pc = "a_tool_done"
  /\ amc' = Append(amc, iter[idx])
  /\ messages' = A_Appended
  /\ sent' = Append(sent, RequestOf(messages'))
  /\ backendCalls' = backendCalls + 1
  /\ \E r \in BedrockReplies(backendCalls + 1) :
       /\ reply' = r
       /\ replies' = Append(replies, r)
       /\ LET marked == Append(final_text,
                               CallingMarker(iter[idx].name, iter[idx].input))
          IN  IF Len(r) = 0
              THEN /\ final_text' = marked
                   /\ Raise("list index out of range")
                   /\ idx' = idx
              ELSE IF r[1].type # "text"
              THEN /\ final_text' = marked
                   /\ Raise("'text'")
                   /\ idx' = idx
              ELSE /\ final_text' = Append(marked, r[1].text)
                   /\ pc' = "a_for"
                   /\ idx' = idx + 1
                   /\ err' = err
  /\ UNCHANGED <<variant, argv, asked, line, available_tools, iter, query, retval, out,
                 exitCode, nQueries, toolCalls, listCalls, dispatched, result,
                 session, cleanups>>

\* lines 98-103: the follow-up backend call raises
A_FollowUpFails ==
  /\ Completes("backend")
  /\ variant = "A" /\ pc = "a_tool_done"
  /\ amc' = Append(amc, iter[idx])
  /\ messages' = A_Appended
  /\ final_text' = Append(final_text,
                          CallingMarker(iter[idx].name, iter[idx].input))
  /\ sent' = Append(sent, RequestOf(messages'))
  /\ backendCalls' = backendCalls + 1
  /\ Raise("backend error")
  /\ UNCHANGED <<variant, argv, asked, line, available_tools, reply, iter, idx, query,
                 retval, out, exitCode, nQueries, toolCalls, listCalls,
                 replies, dispatched, result, session, cleanups>>

\* the return statement indented into the for loop
A_Return_InsideLoop ==
  /\ variant = "A" /\ pc = "a_for"
  /\ idx > 1
  /\ retval' = Join(final_text)
  /\ pc' = "pq_returned"
  /\ UNCHANGED <<variant, argv, asked, line, inflight, messages, final_text,
                 amc, available_tools, reply, iter, idx, query, err, out,
                 exitCode, nQueries, backendCalls, toolCalls, listCalls, sent,
                 replies, dispatched, result, session, cleanups>>

\* line 107: the for loop is exhausted
A_Return ==
  /\ variant = "A" /\ pc = "a_for"
  /\ idx > Len(iter)
  /\ retval' = Join(final_text)
  /\ pc' = "pq_returned"
  /\ UNCHANGED <<variant, argv, asked, line, inflight, messages, final_text, amc, available_tools,
                 reply, iter, idx, query, err, out, exitCode, nQueries,
                 backendCalls, toolCalls, listCalls, sent, replies, dispatched,
                 result, session, cleanups>>

-----------------------------------------------------------------------------
(* process_query of client-openai.py: the while loop of lines 74-97 *)

\* line 78: if message.tool_calls
HasToolCalls_NoElse(m) == TRUE
HasToolCalls(m) == m.items # << >>

\* lines 75-78 and 95-99: append the reply; without tool_calls its content is
\* the answer
B_While ==
  /\ variant = "B" /\ pc = "b_while"
  /\ messages' = Append(messages, reply)
  /\ IF HasToolCalls(reply)
     THEN /\ idx' = 1
          /\ pc' = "b_for"
          /\ UNCHANGED <<final_text, retval>>
     ELSE /\ final_text' = Append(final_text, reply.text)
          /\ retval' = Join(final_text')
          /\ pc' = "pq_returned"
          /\ idx' = idx
  /\ UNCHANGED <<variant, argv, asked, line, inflight, amc, available_tools, reply, iter, query, err,
                 out, exitCode, nQueries, backendCalls, toolCalls, listCalls,
                 sent, replies, dispatched, result, session, cleanups>>

\* line 81: eval of the arguments blob raises
B_EvalFails ==
  /\ variant = "B" /\ pc = "b_for"
  /\ ~B_ForDone
  /\ EvalRaises(reply.items[idx].input)
  /\ Raise(EvalError(reply.items[idx].input))
  /\ UNCHANGED <<variant, argv, asked, line, inflight, messages, final_text, amc, available_tools,
                 reply, iter, idx, query, retval, out, exitCode, nQueries,
                 backendCalls, toolCalls, listCalls, sent, replies, dispatched,
                 result, session, cleanups>>

\* the request as handed to call_tool: decoded arguments
Decoded(call) == [call EXCEPT !.input = Eval(call.input)]

\* lines 80-89: call_tool returns and its result is appended
B_CallTool ==
  /\ Completes("call_tool")
  /\ variant = "B" /\ pc = "b_for"
  /\ ~B_ForDone
  /\ ~EvalRaises(reply.items[idx].input)
  /\ toolCalls' = toolCalls + 1
  /\ dispatched' = Append(dispatched, Decoded(reply.items[idx]))
  /\ \E res \in ToolOutputs :
       /\ result' = res
       /\ messages' = Append(messages,
            OpenAIToolMsg(reply.items[idx].id, reply.items[idx].name, res))
  /\ idx' = idx + 1
  /\ UNCHANGED <<variant, argv, asked, line, pc, final_text, amc, available_tools, reply,
                 iter, query, retval, err, out, exitCode, nQueries,
                 backendCalls, listCalls, sent, replies, session, cleanups>>

\* line 83: call_tool raises; nothing catches it inside process_query
B_CallToolFails ==
  /\ Completes("call_tool")
  /\ variant = "B" /\ pc = "b_for"
  /\ ~B_ForDone
  /\ ~EvalRaises(reply.items[idx].input)
  /\ toolCalls' = toolCalls + 1
  /\ dispatched' = Append(dispatched, Decoded(reply.items[idx]))
  /\ Raise("unknown tool")
  /\ UNCHANGED <<variant, argv, asked, line, messages, final_text, amc, available_tools,
                 reply, iter, idx, query, retval, out, exitCode, nQueries,
                 backendCalls, listCalls, sent, replies, result, session,
                 cleanups>>

\* lines 91-94: all tool_calls of the reply are done, next backend call
B_NextCall ==
  /\ Completes("backend")
  /\ variant = "B" /\ pc = "b_for"
  /\ B_ForDone
  /\ sent' = Append(sent, Request)
  /\ backendCalls' = backendCalls + 1
  /\ \E r \in OpenAIReplies(backendCalls + 1) :
       /\ reply' = r
       /\ replies' = Append(replies, r)
  /\ pc' = "b_while"
  /\ UNCHANGED <<variant, argv, asked, line, messages, final_text, amc, available_tools,
                 iter, idx, query, retval, err, out, exitCode, nQueries,
                 toolCalls, listCalls, dispatched, result, session, cleanups>>

\* lines 91-94: the next backend call raises
B_NextCallFails ==
  /\ Completes("backend")
  /\ variant = "B" /\ pc = "b_for"
  /\ B_ForDone
  /\ sent' = Append(sent, Request)
  /\ backendCalls' = backendCalls + 1
  /\ Raise("backend error")
  /\ UNCHANGED <<variant, argv, asked, line, messages, final_text, amc, available_tools,
                 reply, iter, idx, query, retval, out, exitCode, nQueries,
                 toolCalls, listCalls, replies, dispatched, result, session,
                 cleanups>>

-----------------------------------------------------------------------------
(* main, connect_to_server, chat_loop, cleanup (the same in both files) *)

Quit == <<"q", "u", "i", "t">>

\* main: the usage message, then sys.exit() without a status
MainUsage_ExitZero ==
  /\ pc = "main"
  /\ Len(argv) < 1
  /\ out' = Append(out, "Usage: python client.py <path_to_server_script>")
  /\ exitCode' = 0
  /\ pc' = "exited"
  /\ UNCHANGED <<variant, argv, asked, line, inflight, query, err, nQueries,
                 session, cleanups>>
  /\ UNCHANGED pqVars

\* main: no server-script argument
MainUsage ==
  /\ pc = "main"
  /\ Len(argv) < 1
  /\ out' = Append(out, "Usage: python client.py <path_to_server_script>")
  /\ exitCode' = 1
  /\ pc' = "exited"
  /\ UNCHANGED <<variant, argv, asked, line, inflight, query, err, nQueries, session, cleanups>>
  /\ UNCHANGED pqVars

\* main: MCPClient() is constructed
MainConstruct ==
  /\ pc = "main"
  /\ Len(argv) >= 1
  /\ pc' = "connect"
  /\ UNCHANGED <<variant, argv, asked, line, inflight, query, err, out, exitCode, nQueries, session,
                 cleanups>>
  /\ UNCHANGED pqVars

\* connect_to_server without its suffix check
GoodPath_AnySuffix(path) == TRUE
GoodPath(path) == EndsWith(path, ".py") \/ EndsWith(path, ".js")

\* main without try/finally: the ValueError ends the program at once
ConnectBadPath_NoFinally ==
  /\ pc = "connect"
  /\ ~GoodPath(argv[1])
  /\ err' = "Server script must be a .py or .js file"
  /\ exitCode' = 1
  /\ pc' = "exited"
  /\ UNCHANGED <<variant, argv, asked, line, inflight, query, out, nQueries,
                 session, cleanups>>
  /\ UNCHANGED pqVars

\* connect_to_server: the path is neither .py nor .js
ConnectBadPath ==
  /\ pc = "connect"
  /\ ~GoodPath(argv[1])
  /\ err' = "Server script must be a .py or .js file"
  /\ pc' = "finally_raising"
  /\ UNCHANGED <<variant, argv, asked, line, inflight, query, out, exitCode, nQueries, session,
                 cleanups>>
  /\ UNCHANGED pqVars

\* connect_to_server: the session is started and initialised
ConnectOk ==
  /\ pc = "connect"
  /\ GoodPath(argv[1])
  /\ session' = "open"
  /\ out' = Append(out, "\nConnected to server with tools:")
  /\ pc' = "chat_loop"
  /\ UNCHANGED <<variant, argv, asked, line, inflight, query, err, exitCode, nQueries, cleanups>>
  /\ UNCHANGED pqVars

\* connect_to_server: starting or initialising the session raises
ConnectFails ==
  /\ pc = "connect"
  /\ GoodPath(argv[1])
  /\ \E s \in {"none", "open"} : session' = s
  /\ err' = "session error"
  /\ pc' = "finally_raising"
  /\ UNCHANGED <<variant, argv, asked, line, inflight, query, out, exitCode, nQueries, cleanups>>
  /\ UNCHANGED pqVars

\* chat_loop: the banner
ChatLoopStart ==
  /\ pc = "chat_loop"
  /\ out' = out \o <<"\nMCP Client Started!", "Type your queries or 'quit' to exit.">>
  /\ pc' = "prompt"
  /\ UNCHANGED <<variant, argv, asked, line, inflight, query, err, exitCode, nQueries, session,
                 cleanups>>
  /\ UNCHANGED pqVars

\* chat_loop: a line is read; quit breaks, any other line is a query
ReadLine ==
  /\ pc = "prompt"
  /\ \E l \in InputLines :
       /\ Lower(Strip(l)) # Quit => nQueries < MaxQueries
       /\ line' = l
       /\ query' = Concat(Strip(l))
       /\ IF Lower(Strip(l)) = Quit
          THEN /\ pc' = "finally"
               /\ asked' = asked
          ELSE /\ pc' = "pq_start"
               /\ asked' = Append(asked, query')
  /\ nQueries' = nQueries + 1
  /\ out' = << >>
  /\ UNCHANGED <<variant, argv, inflight, err, exitCode, session, cleanups>>
  /\ UNCHANGED pqVars

\* chat_loop: input() raises (end of input)
ReadFails ==
  /\ pc = "prompt"
  /\ nQueries < MaxQueries
  /\ nQueries' = nQueries + 1
  /\ err' = "EOF when reading a line"
  /\ pc' = "input_raised"
  /\ out' = << >>
  /\ UNCHANGED <<variant, argv, asked, line, inflight, query, exitCode, session, cleanups>>
  /\ UNCHANGED pqVars

\* chat_loop: process_query returned, its answer is printed
PrintResponse ==
  /\ pc = "pq_returned"
  /\ out' = Append(out, "\n" \o retval)
  /\ pc' = "prompt"
  /\ DropLocals
  /\ UNCHANGED <<variant, argv, asked, line, inflight, query, err, exitCode, nQueries, session,
                 cleanups>>

\* chat_loop without its try/except: the exception leaves chat_loop
ExceptHandler_Propagates ==
  /\ pc \in {"pq_raised", "input_raised"}
  /\ pc' = "finally_raising"
  /\ DropLocals
  /\ UNCHANGED <<variant, argv, asked, line, inflight, query, err, out, exitCode, nQueries, session,
                 cleanups>>

\* chat_loop: except Exception; e is unbound once the clause is left
ExceptHandler ==
  /\ pc \in {"pq_raised", "input_raised"}
  /\ out' = Append(out, "\nError: " \o err)
  /\ pc' = "prompt"
  /\ err' = None
  /\ DropLocals
  /\ UNCHANGED <<variant, argv, asked, line, inflight, query, exitCode, nQueries, session,
                 cleanups>>

\* main: finally: cleanup()
Cleanup ==
  /\ pc \in {"finally", "finally_raising"}
  /\ cleanups' = cleanups + 1
  /\ session' = IF session = "open" THEN "closed" ELSE session
  /\ exitCode' = IF pc = "finally_raising" THEN 1 ELSE 0
  /\ pc' = "exited"
  /\ UNCHANGED <<variant, argv, asked, line, inflight, query, err, out, nQueries>>
  /\ UNCHANGED pqVars

-----------------------------------------------------------------------------
Next ==
  \/ MainUsage \/ MainConstruct
  \/ ConnectBadPath \/ ConnectOk \/ ConnectFails
  \/ ChatLoopStart \/ ReadLine \/ ReadFails \/ PrintResponse \/ ExceptHandler
  \/ Cleanup
  \/ Issue
  \/ PQ_Start \/ PQ_ListToolsFails \/ PQ_FirstCall \/ PQ_FirstCallFails
  \/ A_Text \/ A_CallTool \/ A_CallToolFails \/ A_FollowUp \/ A_FollowUpFails
  \/ A_Return
  \/ B_While \/ B_EvalFails \/ B_CallTool \/ B_CallToolFails \/ B_NextCall
  \/ B_NextCallFails

Spec == Init /\ [][Next]_vars

-----------------------------------------------------------------------------
(* Observations used by the properties *)

IsPrefix(s, t) == Len(s) <= Len(t) /\ \A i \in 1..Len(s) : s[i] = t[i]

\* what t holds after its first n elements
After(t, n) == SubSeq(t, n + 1, Len(t))

\* the content items of a reply, whichever backend produced it
ReplyItems(r) == IF variant = "A" THEN r ELSE r.items

\* the text a reply carries, in emission order
ReplyTexts(r) ==
  IF variant = "A"
  THEN LET ts == SelectSeq(r, LAMBDA it : it.type = "text")
       IN  [k \in 1..Len(ts) |-> ts[k].text]
  ELSE IF r.text = None THEN << >> ELSE <<r.text>>

RECURSIVE Flatten(_)
Flatten(ss) == IF Len(ss) = 0 THEN << >> ELSE ss[1] \o Flatten(Tail(ss))

\* every text item received so far, in emission order
AllTexts == Flatten([n \in 1..Len(replies) |-> ReplyTexts(replies[n])])

\* every tool request received in the first n replies, in emission order
RequestsUpTo(n) == Flatten([m \in 1..n |-> Requests(ReplyItems(replies[m]))])

\* message m is a tool result carrying request id i
IsResultFor(m, i) ==
  \/ m.role = "tool" /\ m.tool_id = i
  \/ \E k \in 1..Len(m.items) :
       m.items[k].type = "tool_result" /\ m.items[k].id = i

\* in history h every request of an assistant message is followed by exactly
\* one result message with its id
Answered(h) ==
  \A i \in 1..Len(h) :
    h[i].role = "assistant" =>
      \A k \in 1..Len(h[i].items) :
        IsRequest(h[i].items[k]) =>
          Cardinality({ j \in (i + 1)..Len(h) :
                          IsResultFor(h[j], h[i].items[k].id) }) = 1

\* message m is the assistant message holding all of reply r
HoldsReply(m, r) ==
  m.role = "assistant" /\ (IF variant = "A" THEN m.items = r ELSE m = r)

\* block is: the assistant message of reply r, then one result per request of
\* r, in request order, and nothing else
IsReplyBlock(block, r) ==
  LET reqs == Requests(ReplyItems(r))
  IN  /\ Len(block) = 1 + Len(reqs)
      /\ HoldsReply(block[1], r)
      /\ \A k \in 1..Len(reqs) : IsResultFor(block[1 + k], reqs[k].id)

-----------------------------------------------------------------------------
(* Properties *)

\* C1: at every backend call, every tool request of every assistant message
\* of the history sent is followed by exactly one tool result with its id.
C1_EveryRequestAnswered ==
  \A n \in 1..Len(sent) : Answered(sent[n].messages)

\* C2: process_query returns only when the most recent backend reply held no
\* tool request.
C2_ReturnsOnlyWithoutRequests ==
  pc = "pq_returned" => Requests(ReplyItems(replies[Len(replies)])) = << >>

\* C3: the returned string is the newline-joined text of all replies, in
\* emission order, nothing dropped and nothing added.
C3_ReturnsAllText ==
  pc = "pq_returned" => retval = Join(AllTexts)

\* C4: a step that invokes call_tool never leaves process_query aborted.
C4_ToolFailureDoesNotAbort ==
  [][toolCalls' = toolCalls + 1 => pc' # "pq_raised"]_vars

\* C5: between the backend call that produced a reply with tool requests and
\* the next backend call, the history grows by exactly the assistant message
\* of that reply followed by one result per request, in request order.
C5_ReplyBlockAppended ==
  \A n \in 1..(Len(sent) - 1) :
    Requests(ReplyItems(replies[n])) # << >> =>
      /\ IsPrefix(sent[n].messages, sent[n + 1].messages)
      /\ IsReplyBlock(After(sent[n + 1].messages, Len(sent[n].messages)),
                      replies[n])

\* C6: in Variant B, whenever a backend call has been issued after a reply,
\* every tool_call of that reply (and of the replies before it) has been
\* handed to call_tool, in tool_calls order, and the history sent holds the
\* assistant message followed by one result per tool_call in that order.
C6_AllToolCallsBeforeNextCall ==
  variant = "B" =>
    \A n \in 1..(Len(sent) - 1) :
      LET reqs == RequestsUpTo(n)
      IN  /\ Len(dispatched) >= Len(reqs)
          /\ \A k \in 1..Len(reqs) :
               /\ dispatched[k].id = reqs[k].id
               /\ dispatched[k].name = reqs[k].name
          /\ IsReplyBlock(After(sent[n + 1].messages, Len(sent[n].messages)),
                          replies[n])

\* a second backend call was issued after a reply with two tool_calls
C6_Witness ==
  /\ variant = "B"
  /\ Len(sent) >= 2
  /\ Len(replies[1].items) = 2
  /\ Len(dispatched) >= 2

\* the multi-round scenario: reply 1 is exactly one tool request, reply 2 is
\* exactly one text item, and process_query has returned
MultiRound ==
  /\ pc = "pq_returned"
  /\ Len(replies) = 2
  /\ Len(ReplyItems(replies[1])) = 1
  /\ Len(Requests(ReplyItems(replies[1]))) = 1
  /\ ReplyTexts(replies[1]) = << >>
  /\ Requests(ReplyItems(replies[2])) = << >>
  /\ Len(ReplyTexts(replies[2])) = 1

FirstReplyWithoutRequests ==
  Len(replies) >= 1 /\ Requests(ReplyItems(replies[1])) = << >>

C9_HistoryAppendOnly ==
  [][pc \notin {"pq_returned", "pq_raised"} => IsPrefix(messages, messages')]_vars

\* C10: a failure of process_query is handled by printing the one line
\* "Error: <message>" and nothing else for that query, and chat_loop is back
\* at its prompt, with the session open and the program running.
C10_FailedQueryOnlyReported ==
  [][pc = "pq_raised" =>
       /\ pc' = "prompt"
       /\ out' = <<"\nError: " \o err>>
       /\ exitCode' = NoExit
       /\ session' = "open"
       /\ cleanups' = 0]_vars

\* a query failed in the backend, the failure is reported and chat_loop is at
\* its prompt again with the session open
C10_Witness ==
  /\ pc = "prompt"
  /\ out = <<"\nError: backend error">>
  /\ Len(asked) >= 1
  /\ session = "open"
  /\ exitCode = NoExit

\* message m is a plain user query message
IsQueryMsg(m) == m.role = "user" /\ m.items = << >>

\* C11: the first backend call of every process_query is sent exactly the one
\* user message holding the query of that call, and no history sent later in
\* the call holds another query message.
C11_FreshHistoryPerQuery ==
  /\ Len(sent) >= 1 => sent[1].messages = <<UserMsg(query)>>
  /\ \A n \in 1..Len(sent) :
       \A i \in 1..Len(sent[n].messages) :
         IsQueryMsg(sent[n].messages[i]) =>
           i = 1 /\ sent[n].messages[i].text = asked[Len(asked)]

\* the second query of a run, different from the first, has reached the
\* backend a second time
C11_Witness ==
  /\ Len(asked) = 2
  /\ asked[1] # asked[2]
  /\ Len(sent) >= 2

\* the tool requests received so far that the running loop is to dispatch
ToDispatch ==
  IF Len(replies) = 0 THEN << >>
  ELSE IF variant = "A" THEN Requests(replies[1])
  ELSE RequestsUpTo(Len(replies))

\* C12: at most one external operation is outstanding, it is the one the
\* thread of control waits for, and the requests handed to call_tool so far
\* are an initial part of the received requests, in reply order.
C12_OneOperationAtATime ==
  /\ Len(inflight) <= 1
  /\ inflight # << >> => inflight[1] = NextOp
  /\ Len(dispatched) <= Len(ToDispatch)
  /\ \A k \in 1..Len(dispatched) : dispatched[k].id = ToDispatch[k].id

\* the second call_tool of a reply with two requests is outstanding
C12_Witness ==
  /\ inflight = <<"call_tool">>
  /\ Len(dispatched) = 1
  /\ Len(ToDispatch) = 2

\* C13: once a query has reached the backend, list_tools has been called
\* exactly once for it, and every backend call of the query was sent the
\* catalog shaped from that listing.
C13_OneListingOneCatalog ==
  /\ listCalls <= 1
  /\ Len(sent) >= 1 =>
       /\ listCalls = 1
       /\ \A n \in 1..Len(sent) : sent[n].tools = available_tools

\* a follow-up backend call was sent a catalog that is not empty
C13_Witness ==
  /\ Len(sent) >= 2
  /\ sent[2].tools # << >>
  /\ listCalls = 1

\* C14: process_query does not return as long as every reply of the backend
\* has held a tool request.
C14_NoReturnWhileToolsRequested ==
  pc = "pq_returned" =>
    \E n \in 1..Len(replies) : Requests(ReplyItems(replies[n])) = << >>

\* C15: without a server-script argument the program only prints the usage
\* message and exits with status 1: no client, no session, no chat loop, no
\* query, no external call.
C15_UsageExit ==
  Len(argv) = 0 =>
    /\ pc \in {"main", "exited"}
    /\ session = "none"
    /\ cleanups = 0
    /\ nQueries = 0
    /\ asked = << >>
    /\ inflight = << >>
    /\ listCalls = 0 /\ backendCalls = 0 /\ toolCalls = 0
    /\ pc = "exited" =>
         /\ exitCode = 1
         /\ out = <<"Usage: python client.py <path_to_server_script>">>

\* the program has exited for want of an argument
C15_Witness == Len(argv) = 0 /\ pc = "exited" /\ Len(out) = 1

\* C16: when process_query returns, call_tool has been invoked once for every
\* tool request received in the replies of that call.
C16_EveryRequestDispatchedOnce ==
  pc = "pq_returned" => toolCalls = Len(RequestsUpTo(Len(replies)))

\* l is "quit" after trimming blanks and ignoring case
SaysQuit(l) ==
  \E i, j \in 0..Len(l) :
    /\ i + 4 + j = Len(l)
    /\ \A k \in 1..i : l[k] = " "
    /\ \A k \in (i + 5)..Len(l) : l[k] = " "
    /\ l[i + 1] \in {"q", "Q"} /\ l[i + 2] \in {"u", "U"}
    /\ l[i + 3] \in {"i", "I"} /\ l[i + 4] \in {"t", "T"}

\* C17: chat_loop ends only by reading a line that says quit, which is not
\* dispatched; every other line read is dispatched as one process_query call;
\* a failure of process_query or of input() leads back to the prompt.
C17_QuitOnlyEndsLoop ==
  [][ /\ pc = "prompt" =>
           \/ pc' = "finally" /\ SaysQuit(line') /\ asked' = asked
           \/ /\ pc' = "pq_start"
              /\ ~SaysQuit(line')
              /\ asked' = Append(asked, query')
           \/ pc' = "input_raised" /\ asked' = asked
      /\ pc \in {"pq_returned", "pq_raised", "input_raised"} => pc' = "prompt"
      /\ pc # "prompt" => asked' = asked
      /\ pc' = "finally" => pc = "prompt"
    ]_vars

\* the loop has ended on a quit line in mixed case with blanks around it,
\* after the empty line was dispatched as a query
C17_Witness ==
  /\ pc = "finally"
  /\ line = <<" ", "Q", "u", "I", "T", " ">>
  /\ \E k \in 1..Len(asked) : asked[k] = ""

\* the path given is neither a .py nor a .js file
BadPathGiven == Len(argv) >= 1 /\ argv[1] \notin {"server.py", "server.js"}

\* C18: with a path that ends in neither .py nor .js no tool session is ever
\* started, chat_loop is never entered and no query is processed; the program
\* ends with the ValueError.
C18_BadPathIsFatal ==
  BadPathGiven =>
    /\ session = "none"
    /\ pc \in {"main", "connect", "finally_raising", "exited"}
    /\ nQueries = 0
    /\ asked = << >>
    /\ pc = "exited" =>
         /\ exitCode = 1
         /\ err = "Server script must be a .py or .js file"

\* the program has ended on the bad path
C18_Witness == BadPathGiven /\ pc = "exited" /\ exitCode = 1

\* the number of tool_use items of the first reply
FirstReplyRequests == Len(Requests(replies[1]))

\* C19: in Variant A a query makes at most 1 + k backend calls and k tool
\* calls, k the number of tool_use items of the first reply, and exactly
\* that many when process_query returns, whatever the follow-up replies hold.
C19_BedrockCallCounts ==
  variant = "A" /\ Len(replies) >= 1 =>
    /\ backendCalls <= 1 + FirstReplyRequests
    /\ toolCalls <= FirstReplyRequests
    /\ pc = "pq_returned" =>
         /\ backendCalls = 1 + FirstReplyRequests
         /\ toolCalls = FirstReplyRequests

\* Variant A has returned although every reply held a tool request
C19_Witness ==
  /\ variant = "A"
  /\ pc = "pq_returned"
  /\ FirstReplyRequests = 2
  /\ \A n \in 1..Len(replies) : Requests(replies[n]) # << >>

====
